---- MODULE Spec2Model ----
(***************************************************************************)
(* kindle-sender: the token lifecycle (AzureService::authenticate) and the *)
(* delivery loop (SendService::send_files), as a state machine.            *)
(*                                                                         *)
(* One process run goes  list -> auth -> (refreshing, or await_code ->     *)
(* exchanging) -> loop/sending -> done: every .await of the program on the *)
(* network is a position of its own.  The Credential file, the source and  *)
(* destination directories and the clock survive from one run to the next. *)
(* Option<T> values are sets with at most one element: None is {} and      *)
(* Some(v) is {v}.                                                         *)
(*                                                                         *)
(* Spec is every run from every start.  SpecAuth follows consecutive runs  *)
(* over a batch of one file (the token lifecycle); SpecSend follows one    *)
(* run over every batch (the delivery loop); SpecRun follows one run from  *)
(* every start.                                                            *)
(***************************************************************************)
EXTENDS Integers, Sequences, FiniteSets, TLC

\* ------------------------------------------------------------------ bounds
MaxTime == 2
MaxFiles == 2
MaxRuns == 2
MaxCallbacks == 2
MaxExpiresIn == 2

\* ------------------------------------------------------------ value domains
Files == 1..MaxFiles
\* Access tokens are numbers: 0 is the token of the Credential found at the
\* start, and the token endpoint issues token n during run n.
AccessTokens == 0..MaxRuns
RefreshTokens == {"rt1"}
Codes == {"c1", "c2"}
ExpiresIn == 1..MaxExpiresIn

None == {}
Some(v) == {v}
Option(S) == {None} \cup {Some(v) : v \in S}

\* The wire fields of a token-endpoint response body that parses.
TokenBodies(n) ==
    [access_token : {n}, refresh_token : Option(RefreshTokens),
     expires_in : ExpiresIn]

\* struct TokenResponse; id_token and token_type are carried unchanged and
\* never read, they are fixed here.
TokenResponse ==
    [access_token : AccessTokens, refresh_token : Option(RefreshTokens),
     id_token : {None}, expires_in : ExpiresIn, token_type : {"Bearer"},
     expires_at : Option(0..(MaxTime + MaxExpiresIn))]

\* What ~/.kindle_sender/auth.json can hold.
AuthFileAbsent == [kind |-> "absent"]
AuthFileGarbled == [kind |-> "garbled"]
AuthFileOf(t) == [kind |-> "cred", cred |-> t]
AuthFiles == {AuthFileAbsent, AuthFileGarbled} \cup {AuthFileOf(t) : t \in TokenResponse}

\* The file as earlier runs can have left it: absent, unreadable, or the
\* Credential with token 0 and expires_in 1, acquired at or before time 0,
\* stamped by a code exchange (expires_at = acquisition time + expires_in) or
\* left unstamped by a refresh.
InitAuthFiles ==
    {AuthFileAbsent, AuthFileGarbled} \cup
    {AuthFileOf(t) : t \in [access_token : {0}, refresh_token : Option(RefreshTokens),
                            id_token : {None}, expires_in : {1},
                            token_type : {"Bearer"}, expires_at : Option(0..1)]}

\* What the token endpoint can answer to one POST.
TokenReplies(n) ==
    {[transport |-> "fail"]}
      \cup [transport : {"ok"}, status : {200, 400}, parses : {FALSE}]
      \cup [transport : {"ok"}, status : {200, 400}, parses : {TRUE}, body : TokenBodies(n)]

\* What the mail gateway can answer to one POST.
GatewayReplies == {[transport |-> "fail"]} \cup [transport : {"ok"}, status : {202, 413}]

WriteOutcomes == {"ok", "create_fail", "write_fail"}
RenameOutcomes == {"ok", "fail"}

\* The destination directory at the start: empty, or holding a file of every
\* name from an earlier run.
InitDstDirs == {[f \in Files |-> "none"], [f \in Files |-> "old"]}

\* The source directory at the start: some regular files, or subdirectories
\* only.
InitSrcDirs == [Files -> {"none", "file"}] \cup {[f \in Files |-> "dir"]}

Ok(v) == [ok |-> TRUE, val |-> v]
Err(m) == [ok |-> FALSE, message |-> m]

VARIABLES
    now,            \* Utc::now().timestamp()
    authFile,       \* content of ~/.kindle_sender/auth.json
    srcDir,         \* ebook_to_send_directory: name -> "none" | "file" | "dir"
    dstDir,         \* ebook_sent_directory: name -> "none" | "old" | "moved"
    pc,             \* position of the run
    files,          \* send_files: files
    idx,            \* send_files: position of the for loop, 1-based
    success_count,
    failure_count,
    access_token,   \* send_files: access_token, None before authenticate
    result,         \* result of send_files: "none" | "Ok" | "Err"
    exitCode,       \* process exit code, None while running
    tx,             \* Arc<Mutex<Option<Sender>>>: "none" | "some" | "taken" | "dropped"
    rx,             \* value sent on the oneshot channel and not yet received
    auth_code,      \* authenticate: auth_code, the code rx.await has given
    listener,       \* warp server task: "off" | "on"
    run,            \* number of the current process run
    h               \* history of the current run, read by the properties only

vars == <<now, authFile, srcDir, dstDir, pc, files, idx, success_count,
          failure_count, access_token, result, exitCode, tx, rx, auth_code,
          listener, run, h>>

disk == <<authFile, srcDir, dstDir>>
loopVars == <<files, idx, success_count, failure_count>>
chanVars == <<tx, rx, auth_code, listener>>

\* ------------------------------------------------------------- pure helpers

\* The comparison of is_token_valid turned round.
is_token_valid_flipped(t, clock) ==
    IF t.expires_at # None
    THEN \A expires_at \in t.expires_at : clock >= expires_at
    ELSE FALSE

\* TokenResponse::is_token_valid
is_token_valid(t, clock) ==
    IF t.expires_at # None
    THEN \A expires_at \in t.expires_at : clock < expires_at
    ELSE FALSE

\* AzureService::read_token_from_file
read_token_from_file(file) ==
    IF file.kind # "absent"
    THEN IF file.kind = "cred" THEN Ok(file.cred) ELSE Err("parse")
    ELSE Err("File not found")

\* serde: a response body deserialised into TokenResponse; the endpoint sends
\* no expires_at, so the field is None.
ParseTokenBody(b) ==
    [access_token |-> b.access_token, refresh_token |-> b.refresh_token,
     id_token |-> None, expires_in |-> b.expires_in, token_type |-> "Bearer",
     expires_at |-> None]

\* .send().await?.json().await? : the status is not looked at.
TokenEndpointCall(reply) ==
    IF reply.transport = "fail" THEN Err("transport")
    ELSE IF ~reply.parses THEN Err("decode")
    ELSE Ok(ParseTokenBody(reply.body))

\* What a reply of the token endpoint is, for the caller of reqwest: the
\* request did not get through, the status is not 2xx, the body of a 2xx
\* answer does not parse, or it is a 2xx answer with a Credential.
ReplyClass(reply) ==
    IF reply.transport = "fail" THEN "transport"
    ELSE IF reply.status \notin 200..299 THEN "status"
    ELSE IF ~reply.parses THEN "decode"
    ELSE "good"

\* AzureService::refresh_access_token
refresh_access_token(reply) == TokenEndpointCall(reply)

\* AzureService::exchange_code_for_token
exchange_code_for_token(reply) == TokenEndpointCall(reply)

\* authenticate, line 141: token_response.expires_at = Some(now + expires_in)
StampExpiresAt(t, clock) == [t EXCEPT !.expires_at = Some(clock + t.expires_in)]

\* write_token_to_file reporting success whatever happens to the file.
write_token_to_file_quiet(file, t, outcome) ==
    IF outcome = "ok" THEN [ok |-> TRUE, file |-> AuthFileOf(t)]
    ELSE IF outcome = "write_fail" THEN [ok |-> TRUE, file |-> AuthFileGarbled]
    ELSE [ok |-> TRUE, file |-> file]

\* write_token_to_file keeping the refresh_token of the Credential in the file
\* when the new one has none.
write_token_to_file_merge(file, t, outcome) ==
    IF outcome = "ok"
    THEN [ok |-> TRUE,
          file |-> AuthFileOf(IF file.kind = "cred" /\ t.refresh_token = None
                              THEN [t EXCEPT !.refresh_token = file.cred.refresh_token]
                              ELSE t)]
    ELSE IF outcome = "write_fail" THEN [ok |-> FALSE, file |-> AuthFileGarbled]
    ELSE [ok |-> FALSE, file |-> file]

\* AzureService::write_token_to_file: the new content of the file and the result.
\* create_dir_all or File::create failing leaves the file alone; write_all
\* failing leaves the file File::create has truncated.
write_token_to_file(file, t, outcome) ==
    IF outcome = "ok" THEN [ok |-> TRUE, file |-> AuthFileOf(t)]
    ELSE IF outcome = "write_fail" THEN [ok |-> FALSE, file |-> AuthFileGarbled]
    ELSE [ok |-> FALSE, file |-> file]

\* FileService::list_file_in_directory: the regular files of the directory,
\* in the order read_dir yields them.
RegularFiles(dir) == {f \in Files : dir[f] = "file"}
Orders(S) == {s \in [1..Cardinality(S) -> S] : \A i, j \in DOMAIN s : i # j => s[i] # s[j]}
Range(s) == {s[i] : i \in DOMAIN s}

\* move_file copying instead of renaming: the source entry stays.
move_file_copy(src, dst, f, outcome) ==
    IF src[f] = "file" /\ outcome = "ok"
    THEN [ok |-> TRUE, src |-> src, dst |-> [dst EXCEPT ![f] = "moved"]]
    ELSE [ok |-> FALSE, src |-> src, dst |-> dst]

\* move_file taking the file out of the source directory even when the rename
\* has failed.
move_file_lossy(src, dst, f, outcome) ==
    IF src[f] = "file" /\ outcome = "ok"
    THEN [ok |-> TRUE, src |-> [src EXCEPT ![f] = "none"], dst |-> [dst EXCEPT ![f] = "moved"]]
    ELSE [ok |-> FALSE, src |-> [src EXCEPT ![f] = "none"], dst |-> dst]

\* FileService::move_file: fs::rename fails when the source is gone, or when
\* the system refuses; otherwise the name leaves the source directory and the
\* destination entry is replaced.
move_file(src, dst, f, outcome) ==
    IF src[f] = "file" /\ outcome = "ok"
    THEN [ok |-> TRUE, src |-> [src EXCEPT ![f] = "none"], dst |-> [dst EXCEPT ![f] = "moved"]]
    ELSE [ok |-> FALSE, src |-> src, dst |-> dst]

\* KindleService::send_file, the answer of the gateway
send_file_response(reply) ==
    IF reply.transport = "fail" THEN Err("Failed to send email")
    ELSE IF reply.status \in 200..299 THEN Ok("sent")
    ELSE Err("Failed to send email: status")

\* send_files without its final check of failure_count.
send_files_verdict_always_ok(failures) == "Ok"

\* send_files, lines 124-130
send_files_verdict(failures) == IF failures > 0 THEN "Err" ELSE "Ok"

\* execute_send_command and main: Err ends in std::process::exit(1)
main_exit_code(res) == IF res = "Err" THEN 1 ELSE 0

\* send_files without the early return on an empty listing.
files_is_empty_never(fs) == FALSE

\* send_files, line 66
files_is_empty(fs) == Len(fs) = 0

\* send_files going on after a failed authenticate.
AuthErrorSwallowed(r) == FALSE

\* send_files, line 74: the ? after authenticate().await
AuthErrorPropagates(r) == ~r.ok

\* The refresh branch going back to the Credential file after a stored
\* refresh instead of returning.
AfterRefresh_reread(ok) == IF ok THEN "auth" ELSE "return"

\* The refresh branch without its return after a stored refresh: authenticate
\* goes on into the interactive flow.
AfterRefresh_no_return(ok) == IF ok THEN "interactive" ELSE "return"

\* authenticate, lines 81-92: the refresh branch always returns, with the
\* error (the ? of lines 86 and 91) or with the new token (line 92).
AfterRefresh(ok) == "return"

\* The route taking the Sender out of the mutex before it looks for a code: a
\* request without a code drops the Sender.
callback_route_eager(query, sender, sent) ==
    IF sender = "some"
    THEN IF query # None
         THEN [tx |-> "taken", rx |-> query, send |-> TRUE]
         ELSE [tx |-> "dropped", rx |-> sent, send |-> FALSE]
    ELSE [tx |-> sender, rx |-> sent, send |-> FALSE]

\* The route sending every code it is given, whether or not the Sender has
\* been taken.
callback_route_resend(query, sender, sent) ==
    IF query # None /\ sender \in {"some", "taken"}
    THEN [tx |-> "taken", rx |-> query, send |-> TRUE]
    ELSE [tx |-> sender, rx |-> sent, send |-> FALSE]

\* authenticate, lines 115-122: the route takes the Sender out of the mutex
\* and sends the code on it, when the query has a code and the Sender is
\* still there.
callback_route(query, sender, sent) ==
    IF query # None /\ sender = "some"
    THEN [tx |-> "taken", rx |-> query, send |-> TRUE]
    ELSE [tx |-> sender, rx |-> sent, send |-> FALSE]

\* The wait going on with an empty code when the Sender has been dropped.
rx_await_default(sent) == Ok(sent)

\* authenticate, lines 128-130: rx.await gives the code that was sent, or the
\* error of a channel whose Sender was dropped with nothing sent.
rx_await(sent) ==
    IF sent = None THEN Err("Failed to receive auth code") ELSE Ok(sent)

\* send_file called without the token authenticate has returned.
send_bearer_none(token) == None

\* send_files, line 91: every send_file gets a clone of the access_token
\* authenticate has returned.
send_bearer(token) == token

\* The for loop passing over every second file.
NextIndex_skip(i, n) == i + 2

\* The for loop staying on the same file.
NextIndex_stay(i, n) == i

\* The for loop left at the first file that has been dealt with.
NextIndex_break(i, n) == n + 1

\* send_files, lines 112-116: a failed file does not leave the for loop
NextIndex(i, n) == i + 1

\* ------------------------------------------------------------------ history
NoHistory ==
    [listed |-> "none", authCalls |-> 0, tokenReads |-> 0, tokenWrites |-> 0,
     refreshCalls |-> 0, exchangeCalls |-> 0, listenerStarts |-> 0,
     gatewayReqs |-> 0, callbacks |-> 0, firstCode |-> None, lateOther |-> FALSE, sends |-> 0,
     emptyFirst |-> FALSE,
     authPath |-> "none", authResult |-> "none", authError |-> "none",
     credAtAuth |-> AuthFileAbsent, authTime |-> 0,
     refreshResult |-> "none", refreshTime |-> 0,
     tokenReply |-> "none", tokenResult |-> "none", refreshBody |-> None,
     stages |-> <<>>, writeOutcome |-> "none",
     persisted |-> None,
     sendAttempts |-> [f \in Files |-> 0], moveAttempts |-> [f \in Files |-> 0],
     sendOk |-> {}, sendFailed |-> {}, openFailed |-> {}, moveOk |-> {}, moveFailed |-> {},
     bearers |-> {}, sendOrder |-> <<>>, vanished |-> {}, collided |-> {},
     prev |-> None]

\* ------------------------------------------------------------------ initial
InitWith(authFiles, srcDirs) ==
    /\ now = 0
    /\ authFile \in authFiles
    /\ srcDir \in srcDirs
    /\ dstDir \in InitDstDirs
    /\ pc = "list"
    /\ files = <<>>
    /\ idx = 1
    /\ success_count = 0
    /\ failure_count = 0
    /\ access_token = None
    /\ result = "none"
    /\ exitCode = None
    /\ tx = "none"
    /\ rx = None
    /\ auth_code = None
    /\ listener = "off"
    /\ run = 1
    /\ h = NoHistory

Init == InitWith(InitAuthFiles, InitSrcDirs)

\* One file waiting to be sent, and any Credential file.
InitAuth == InitWith(InitAuthFiles, {[f \in Files |-> IF f = 1 THEN "file" ELSE "none"]})

\* Any source directory, and no Credential file, a Credential without
\* refresh_token, or the unstamped Credential a refresh has left.
InitSend ==
    InitWith({a \in InitAuthFiles :
                \/ a.kind = "absent"
                \/ a.kind = "cred" /\ (a.cred.refresh_token = None \/ a.cred.expires_at = None)},
             InitSrcDirs)

\* ------------------------------------------------------------------ actions

\* The clock.  The program reads it in authenticate only, so time is let
\* pass where a later reading can tell: before authenticate, and while
\* authenticate waits for the authorization code or for the token endpoint.
Tick ==
    /\ pc \in {"list", "refreshing", "await_code", "exchanging"}
    /\ now < MaxTime
    /\ now' = now + 1
    /\ UNCHANGED <<disk, pc, loopVars, access_token, result, exitCode, chanVars, run, h>>

\* send_files, line 74: authenticate() has returned r to send_files.
AuthReturn(r, hist) ==
    /\ h' = [hist EXCEPT !.authResult = IF r.ok THEN "ok" ELSE "err",
                         !.authError = IF r.ok THEN "none" ELSE r.message]
    /\ access_token' = IF r.ok THEN Some(r.val) ELSE None
    /\ IF AuthErrorPropagates(r)
       THEN /\ pc' = "done"
            /\ result' = "Err"
            /\ exitCode' = Some(main_exit_code("Err"))
       ELSE /\ pc' = "loop"
            /\ UNCHANGED <<result, exitCode>>

\* send_files, lines 58-71: list the directory, leave when it is empty.
ListFiles ==
    /\ pc = "list"
    /\ \/ \* read_dir fails
          /\ pc' = "done"
          /\ result' = "Err"
          /\ exitCode' = Some(main_exit_code("Err"))
          /\ h' = [h EXCEPT !.listed = "err"]
          /\ UNCHANGED files
       \/ \E order \in Orders(RegularFiles(srcDir)) :
            /\ files' = order
            /\ h' = [h EXCEPT !.listed = "ok"]
            /\ IF files_is_empty(order)
               THEN /\ pc' = "done"
                    /\ result' = "Ok"
                    /\ exitCode' = Some(main_exit_code("Ok"))
               ELSE /\ pc' = "auth"
                    /\ UNCHANGED <<result, exitCode>>
    /\ UNCHANGED <<now, disk, idx, success_count, failure_count, access_token,
                   chanVars, run>>

\* authenticate, lines 71-125: the cached token, the refresh POST sent, or
\* the start of the interactive flow.
Authenticate ==
    /\ pc = "auth"
    /\ LET r == read_token_from_file(authFile)
           h0 == [h EXCEPT !.authCalls = @ + 1, !.tokenReads = @ + 1,
                           !.stages = Append(@, "Cached"),
                           !.credAtAuth = authFile, !.authTime = now]
       IN
       IF r.ok /\ is_token_valid(r.val, now)
       THEN /\ AuthReturn(Ok(r.val.access_token), [h0 EXCEPT !.authPath = "cached"])
            /\ UNCHANGED chanVars
       ELSE IF r.ok /\ r.val.refresh_token # None
       THEN /\ pc' = "refreshing"
            /\ h' = [h0 EXCEPT !.authPath = "refresh", !.refreshCalls = @ + 1,
                                !.stages = Append(@, "Refreshing"),
                                !.refreshTime = now]
            /\ UNCHANGED <<access_token, result, exitCode, chanVars>>
       ELSE /\ tx' = "some"
            /\ rx' = None
            /\ listener' = "on"
            /\ pc' = "await_code"
            /\ h' = [h0 EXCEPT !.authPath = "interactive", !.listenerStarts = @ + 1,
                                !.stages = Append(@, "Interactive")]
            /\ UNCHANGED <<access_token, result, exitCode, auth_code>>
    /\ UNCHANGED <<now, disk, loopVars, run>>

\* authenticate, lines 81-92: the token endpoint answers the refresh POST;
\* the new Credential is stored and its token returned.
RefreshEnd ==
    /\ pc = "refreshing"
    /\ \E reply \in TokenReplies(run), wo \in WriteOutcomes :
         LET n == refresh_access_token(reply)
             h1 == [h EXCEPT !.refreshResult = IF n.ok THEN "ok" ELSE "err",
                             !.refreshBody = IF n.ok THEN Some(reply.body) ELSE None,
                             !.tokenReply = ReplyClass(reply),
                             !.tokenResult = IF n.ok THEN "ok" ELSE "err"]
         IN
         IF ~n.ok
         THEN /\ AuthReturn(Err("Error refreshing token"), h1)
              /\ UNCHANGED <<authFile, chanVars>>
         ELSE LET w == write_token_to_file(authFile, n.val, wo)
                  h2 == [h1 EXCEPT !.tokenWrites = @ + 1,
                                   !.writeOutcome = wo,
                                   !.persisted = IF w.ok
                                                 THEN Some([expiry |-> now + n.val.expires_in, via |-> "refresh"])
                                                 ELSE None]
              IN
              /\ authFile' = w.file
              /\ IF ~w.ok
                 THEN /\ AuthReturn(Err("Error writing token to file"), h2)
                      /\ UNCHANGED chanVars
                 ELSE IF AfterRefresh(w.ok) = "return"
                 THEN /\ AuthReturn(Ok(n.val.access_token), h2)
                      /\ UNCHANGED chanVars
                 ELSE IF AfterRefresh(w.ok) = "interactive"
                 THEN /\ tx' = "some"
                      /\ rx' = None
                      /\ listener' = "on"
                      /\ pc' = "await_code"
                      /\ h' = [h2 EXCEPT !.listenerStarts = @ + 1,
                                         !.stages = Append(@, "Interactive")]
                      /\ UNCHANGED <<access_token, result, exitCode, auth_code>>
                 ELSE /\ pc' = "auth"
                      /\ h' = h2
                      /\ UNCHANGED <<access_token, result, exitCode, chanVars>>
    /\ UNCHANGED <<now, srcDir, dstDir, loopVars, run>>

\* authenticate, lines 113-122: one GET on /callback, with or without a code.
\* Requests are followed while authenticate is in the interactive flow, the
\* exchange POST included: once the Sender is taken or dropped a request
\* changes nothing.
Callback(query) ==
    /\ pc \in {"await_code", "exchanging"}
    /\ listener = "on"
    /\ h.callbacks < MaxCallbacks
    /\ LET c == callback_route(query, tx, rx) IN
         /\ tx' = c.tx
         /\ rx' = c.rx
         /\ h' = [h EXCEPT !.callbacks = @ + 1,
                           !.firstCode = IF @ = None THEN query ELSE @,
                           !.lateOther = @ \/ (h.firstCode # None /\ query \notin {None, h.firstCode}),
                           !.emptyFirst = @ \/ (h.firstCode = None /\ query = None),
                           !.sends = IF c.send THEN @ + 1 ELSE @]
    /\ UNCHANGED <<now, disk, pc, loopVars, access_token, result, exitCode, auth_code,
                   listener, run>>

\* authenticate, line 125: warp's run() panics when the port cannot be bound;
\* the spawned task ends and drops the route, and the Sender with it.
ListenerDies ==
    /\ pc = "await_code"
    /\ listener = "on"
    /\ tx = "some"
    /\ h.callbacks = 0
    /\ tx' = "dropped"
    /\ listener' = "off"
    /\ UNCHANGED <<now, disk, pc, loopVars, access_token, result, exitCode, rx,
                   auth_code, run, h>>

\* authenticate, lines 127-138: rx.await resolves, with the code that was
\* sent or with the error of a dropped Sender; the code goes out in the
\* exchange POST.
AwaitCode ==
    /\ pc = "await_code"
    /\ rx # None \/ tx = "dropped"
    /\ IF ~rx_await(rx).ok
       THEN /\ AuthReturn(rx_await(rx), h)
            /\ UNCHANGED auth_code
       ELSE /\ auth_code' = rx_await(rx).val
            /\ pc' = "exchanging"
            /\ h' = [h EXCEPT !.exchangeCalls = @ + 1]
            /\ UNCHANGED <<access_token, result, exitCode>>
    /\ rx' = None
    /\ UNCHANGED <<now, disk, loopVars, tx, listener, run>>

\* authenticate, lines 133-148: the token endpoint answers the exchange POST;
\* the Credential is stamped with the clock read now, stored, and its token
\* returned.  The history of the requests seen by the route ends here.
ExchangeEnd ==
    /\ pc = "exchanging"
    /\ \E reply \in TokenReplies(run), wo \in WriteOutcomes :
         LET n == exchange_code_for_token(reply)
             h1 == [h EXCEPT !.callbacks = 0, !.firstCode = None,
                             !.lateOther = FALSE, !.sends = 0, !.emptyFirst = FALSE,
                             !.tokenReply = ReplyClass(reply),
                             !.tokenResult = IF n.ok THEN "ok" ELSE "err"]
         IN
         IF ~n.ok
         THEN /\ AuthReturn(Err("Error exchanging code for token"), h1)
              /\ UNCHANGED authFile
         ELSE LET t == StampExpiresAt(n.val, now)
                  w == write_token_to_file(authFile, t, wo)
                  h2 == [h1 EXCEPT !.tokenWrites = @ + 1,
                                   !.writeOutcome = wo,
                                   !.persisted = IF w.ok
                                                 THEN Some([expiry |-> now + t.expires_in, via |-> "exchange"])
                                                 ELSE None]
              IN
              /\ authFile' = w.file
              /\ IF w.ok
                 THEN AuthReturn(Ok(t.access_token), h2)
                 ELSE AuthReturn(Err("Error writing token to file"), h2)
    /\ auth_code' = None
    /\ UNCHANGED <<now, srcDir, dstDir, loopVars, tx, rx, listener, run>>

\* send_files line 80 and send_file lines 52-114: open and read the next file
\* and POST it to the gateway.  A file that cannot be opened fails here.
SendBegin ==
    /\ pc = "loop"
    /\ idx <= Len(files)
    /\ LET f == files[idx]
           h0 == [h EXCEPT !.sendAttempts[f] = @ + 1, !.sendOrder = Append(@, f)]
       IN
       IF srcDir[f] = "file"
       THEN /\ pc' = "sending"
            /\ h' = [h0 EXCEPT !.gatewayReqs = @ + 1,
                                !.bearers = @ \cup {send_bearer(access_token)}]
            /\ UNCHANGED <<idx, failure_count>>
       ELSE /\ failure_count' = failure_count + 1
            /\ idx' = NextIndex(idx, Len(files))
            /\ h' = [h0 EXCEPT !.openFailed = @ \cup {f}]
            /\ UNCHANGED pc
    /\ UNCHANGED <<now, disk, files, success_count, access_token, result, exitCode,
                   chanVars, run>>

\* send_file lines 116-137 and send_files lines 94-116: the gateway answers;
\* a sent file is moved, and the file is counted.
SendEnd ==
    /\ pc = "sending"
    /\ \E reply \in GatewayReplies, ro \in RenameOutcomes :
         LET f == files[idx]
             s == send_file_response(reply)
         IN
         IF s.ok
         THEN LET m == move_file(srcDir, dstDir, f, ro)
                  hm == [h EXCEPT !.sendOk = @ \cup {f}, !.moveAttempts[f] = @ + 1,
                                  !.collided = IF dstDir[f] = "old" THEN @ \cup {f} ELSE @]
              IN
              /\ srcDir' = m.src
              /\ dstDir' = m.dst
              /\ IF m.ok
                 THEN /\ success_count' = success_count + 1
                      /\ h' = [hm EXCEPT !.moveOk = @ \cup {f}]
                      /\ UNCHANGED failure_count
                 ELSE /\ failure_count' = failure_count + 1
                      /\ h' = [hm EXCEPT !.moveFailed = @ \cup {f}]
                      /\ UNCHANGED success_count
         ELSE /\ failure_count' = failure_count + 1
              /\ h' = [h EXCEPT !.sendFailed = @ \cup {f}]
              /\ UNCHANGED <<srcDir, dstDir, success_count>>
    /\ idx' = NextIndex(idx, Len(files))
    /\ pc' = "loop"
    /\ UNCHANGED <<now, authFile, files, access_token, result, exitCode, chanVars, run>>

\* send_files, lines 119-130, and main: the verdict of the run.
Finish ==
    /\ pc = "loop"
    /\ idx > Len(files)
    /\ pc' = "done"
    /\ result' = send_files_verdict(failure_count)
    /\ exitCode' = Some(main_exit_code(send_files_verdict(failure_count)))
    /\ UNCHANGED <<now, disk, loopVars, access_token, chanVars, run, h>>

\* A listed file that is still to be sent or moved is removed by someone else
\* while the run is in the loop.
FileVanish(f) ==
    /\ pc \in {"loop", "sending"}
    /\ f \in {files[i] : i \in idx..Len(files)}
    /\ srcDir[f] = "file"
    /\ srcDir' = [srcDir EXCEPT ![f] = "none"]
    /\ h' = [h EXCEPT !.vanished = @ \cup {f}]
    /\ UNCHANGED <<now, authFile, dstDir, pc, loopVars, access_token, result,
                   exitCode, chanVars, run>>

\* The process has ended and is started again; a file of the same name as one
\* that has just been moved away may have been put into the source directory
\* meanwhile.
NextRun ==
    /\ pc = "done"
    /\ run < MaxRuns
    /\ run' = run + 1
    /\ srcDir' \in {srcDir} \cup
                   {[srcDir EXCEPT ![f] = "file"] : f \in {g \in Files : dstDir[g] = "moved"}}
    /\ dstDir' = [f \in Files |-> IF dstDir[f] = "none" THEN "none" ELSE "old"]
    /\ pc' = "list"
    /\ files' = <<>>
    /\ idx' = 1
    /\ success_count' = 0
    /\ failure_count' = 0
    /\ access_token' = None
    /\ result' = "none"
    /\ exitCode' = None
    /\ tx' = "none"
    /\ rx' = None
    /\ auth_code' = None
    /\ listener' = "off"
    /\ h' = [NoHistory EXCEPT !.prev = IF h.persisted # None THEN h.persisted
                                       ELSE IF h.tokenWrites > 0 THEN None ELSE h.prev]
    /\ UNCHANGED <<now, authFile>>

\* One run of the process.
OneRun ==
    \/ Tick
    \/ ListFiles
    \/ Authenticate
    \/ RefreshEnd
    \/ \E q \in Option(Codes) : Callback(q)
    \/ ListenerDies
    \/ AwaitCode
    \/ ExchangeEnd
    \/ SendBegin
    \/ SendEnd
    \/ Finish
    \/ \E f \in Files : FileVanish(f)

Next ==
    \/ OneRun
    \/ NextRun

\* Consecutive runs from any start.
Spec == Init /\ [][Next]_vars

\* Consecutive runs that start with a batch of one file: the token lifecycle.
SpecAuth == InitAuth /\ [][Next]_vars

\* One run over any batch: the delivery loop.
SpecSend == InitSend /\ [][OneRun]_vars

\* One run from any start: the token lifecycle and the delivery loop together.
SpecRun == Init /\ [][OneRun]_vars

TypeOK ==
    /\ now \in 0..MaxTime
    /\ authFile \in AuthFiles
    /\ srcDir \in [Files -> {"none", "file", "dir"}]
    /\ dstDir \in [Files -> {"none", "old", "moved"}]
    /\ pc \in {"list", "auth", "refreshing", "await_code", "exchanging", "loop",
              "sending", "done"}
    /\ idx \in 1..(MaxFiles + 1)
    /\ success_count \in 0..MaxFiles
    /\ failure_count \in 0..MaxFiles
    /\ access_token \in Option(AccessTokens)
    /\ result \in {"none", "Ok", "Err"}
    /\ exitCode \in Option({0, 1})
    /\ tx \in {"none", "some", "taken", "dropped"}
    /\ rx \in Option(Codes)
    /\ auth_code \in Option(Codes)
    /\ listener \in {"off", "on"}
    /\ run \in 1..MaxRuns

\* ------------------------------------------------------------------ claims

\* The Credential read by authenticate was valid when it was read.
StoredValid ==
    /\ h.authCalls = 1
    /\ h.credAtAuth.kind = "cred"
    /\ \E e \in h.credAtAuth.cred.expires_at : h.authTime < e

\* C1: when the refresh call made for an expired Credential that has a
\* refresh_token fails, authenticate does not fail with the refresh error but
\* goes on to the interactive step (the listener is started).
C1_RefreshFailureFallsThrough ==
    h.refreshResult = "err" =>
        /\ h.listenerStarts = 1
        /\ h.authError # "Error refreshing token"

\* C2: a stored Credential whose expires_at is in the future makes
\* authenticate return the stored access_token with no refresh, no code
\* exchange, no listener and no write of the Credential file.
C2_ValidCredentialNoNetwork ==
    StoredValid =>
        /\ h.authResult = "ok"
        /\ access_token = Some(h.credAtAuth.cred.access_token)
        /\ h.refreshCalls = 0
        /\ h.exchangeCalls = 0
        /\ h.listenerStarts = 0
        /\ listener = "off"
        /\ h.tokenWrites = 0
        /\ authFile = h.credAtAuth

C2_Witness ==
    /\ StoredValid
    /\ pc = "loop"
    /\ h.credAtAuth.cred.refresh_token # None

\* C3: the Credential persisted after a successful refresh has expires_at =
\* (time of the refresh) + (the new expires_in).
C3_RefreshStampsExpiry ==
    (h.refreshResult = "ok" /\ h.persisted # None) =>
        /\ authFile.kind = "cred"
        /\ authFile.cred.expires_at = Some(h.refreshTime + authFile.cred.expires_in)

\* C4: when an earlier run has persisted a Credential, a run that
\* authenticates before that Credential's expiry time (time of acquisition +
\* expires_in) takes its token from the cache: no token-endpoint call and no
\* interactive flow.
C4_NextRunUsesCache ==
    (h.authCalls = 1 /\ \E p \in h.prev : h.authTime < p.expiry) =>
        /\ h.authPath = "cached"
        /\ h.refreshCalls = 0
        /\ h.exchangeCalls = 0
        /\ h.listenerStarts = 0

\* C5: within one authenticate call the interactive flow is started if and
\* only if the cached Credential is not valid (or there is none) and no
\* refresh attempt has succeeded (looked at once a refresh that was attempted
\* has been answered).
C5_InteractiveIff ==
    (h.authPath # "none" /\ pc # "refreshing") =>
        (h.listenerStarts >= 1 <=> (~StoredValid /\ h.refreshResult # "ok"))

\* C6: when the listing of the source directory holds no regular file,
\* send_files returns Ok with zero successes and zero failures, authenticate
\* is never called, the Credential file is not read or written, no listener is
\* started and no gateway request is made.
C6_EmptyDirNoAuth ==
    (h.listed = "ok" /\ Len(files) = 0) =>
        /\ pc = "done"
        /\ result = "Ok"
        /\ exitCode = Some(0)
        /\ success_count = 0
        /\ failure_count = 0
        /\ h.authCalls = 0
        /\ h.tokenReads = 0
        /\ h.tokenWrites = 0
        /\ h.listenerStarts = 0
        /\ listener = "off"
        /\ h.gatewayReqs = 0

C6_Witness ==
    /\ h.listed = "ok"
    /\ Len(files) = 0
    /\ \E f \in Files : srcDir[f] = "dir"
    /\ authFile = AuthFileAbsent
    /\ pc = "done"

\* C7, as stated: when the gateway send of every enumerated file has
\* succeeded, the run ends with success count N, failure count 0, and every
\* file out of the source directory and in the destination directory.
C7_AllSendsSucceed ==
    (pc = "done" /\ h.authResult = "ok" /\ h.sendOk = Range(files)) =>
        /\ success_count = Len(files)
        /\ failure_count = 0
        /\ \A f \in Range(files) : srcDir[f] # "file" /\ dstDir[f] = "moved"

\* C7, amended: when the gateway send and the relocation of every enumerated
\* file have succeeded, the run ends with success count N, failure count 0,
\* result Ok, and every file out of the source directory and in the
\* destination directory.
C7_AllSendsAndMovesSucceed ==
    (pc = "done" /\ h.authResult = "ok" /\ h.sendOk = Range(files)
       /\ h.moveOk = Range(files)) =>
        /\ success_count = Len(files)
        /\ failure_count = 0
        /\ result = "Ok"
        /\ \A f \in Range(files) : srcDir[f] # "file" /\ dstDir[f] = "moved"

C7_Witness ==
    /\ pc = "done"
    /\ h.authResult = "ok"
    /\ Len(files) = 2
    /\ h.sendOk = Range(files)
    /\ h.moveOk = Range(files)

\* C8: a file whose send fails (gateway status not 2xx, transport failure, or
\* the file cannot be opened) is counted as a failure and is not relocated,
\* and the loop goes on: every file dealt with so far is counted exactly once
\* and at the end of the run every enumerated file has had its send attempt.
C8_FailedSendContinues ==
    \A k \in h.sendFailed \cup h.openFailed :
        /\ failure_count >= 1
        /\ h.moveAttempts[k] = 0
        /\ dstDir[k] # "moved"
        /\ pc \in {"loop", "sending", "done"}
        /\ success_count + failure_count = idx - 1
        /\ idx <= Len(files) + 1
        /\ pc = "done" => \A f \in Range(files) : h.sendAttempts[f] = 1

C8_Witness ==
    /\ pc = "done"
    /\ Len(files) = 2
    /\ files[1] \in h.sendFailed
    /\ srcDir[files[1]] = "file"
    /\ files[2] \in h.moveOk

\* C9: once authenticate has succeeded, send_files returns only after every
\* enumerated file has been dealt with, it returns Err exactly when the
\* failure count is greater than 0, and the exit code is 1 in that case and 0
\* otherwise.
C9_VerdictIffFailures ==
    (h.authResult = "ok" /\ result # "none") =>
        /\ idx = Len(files) + 1
        /\ \A f \in Range(files) : h.sendAttempts[f] = 1
        /\ success_count + failure_count = Len(files)
        /\ result = "Err" <=> failure_count > 0
        /\ exitCode = Some(1) <=> failure_count > 0
        /\ failure_count = 0 => exitCode = Some(0)

C9_Witness ==
    /\ h.authResult = "ok"
    /\ result = "Err"
    /\ success_count = 1
    /\ failure_count = 1

\* C10: when authenticate fails, send_files returns Err at once: no file is
\* sent, counted or relocated, and the exit code is 1.
C10_AuthErrorEndsRun ==
    h.authResult = "err" =>
        /\ pc = "done"
        /\ result = "Err"
        /\ exitCode = Some(1)
        /\ h.gatewayReqs = 0
        /\ success_count = 0
        /\ failure_count = 0
        /\ \A f \in Files :
             h.sendAttempts[f] = 0 /\ h.moveAttempts[f] = 0 /\ dstDir[f] # "moved"

C10_Witness ==
    /\ h.authResult = "err"
    /\ h.authError = "Failed to receive auth code"
    /\ Len(files) = 2

\* The run has ended with an error before the end of the batch: the listing
\* was not obtained, or an enumerated file has had no send attempt.
EndedEarly ==
    /\ result = "Err"
    /\ h.listed # "ok" \/ \E f \in Range(files) : h.sendAttempts[f] = 0

\* C11, as stated: send_files ends with an error before the end of the batch
\* only when authenticate has failed.
C11_OnlyAuthEndsEarly ==
    EndedEarly => h.authResult = "err"

\* C11, amended: send_files ends with an error before the end of the batch
\* only when authenticate has failed or the source directory could not be
\* listed; a failure of a file never does.
C11_OnlyAuthOrListingEndsEarly ==
    /\ EndedEarly => (h.authResult = "err" \/ h.listed = "err")
    /\ (h.sendFailed \cup h.openFailed \cup h.moveFailed # {} /\ result # "none")
          => \A f \in Range(files) : h.sendAttempts[f] = 1

C11_Witness ==
    /\ result = "Err"
    /\ Len(files) = 2
    /\ files[1] \in h.sendFailed
    /\ files[2] \in h.moveFailed

\* C12, as stated: in every run the Credential file is read exactly once and
\* written at most once.
C12_ReadOnceWriteAtMostOnce ==
    /\ h.tokenWrites <= 1
    /\ pc = "done" => h.tokenReads = 1

\* C12, amended: in every run that calls authenticate the Credential file is
\* read exactly once, in a run that does not (empty or unreadable source
\* directory) it is not read, and in every run it is written at most once.
C12_ReadOncePerAuthWriteAtMostOnce ==
    /\ h.tokenWrites <= 1
    /\ h.tokenReads = h.authCalls
    /\ h.authCalls <= 1
    /\ h.authCalls = 1 <=> \/ pc \in {"refreshing", "await_code", "exchanging", "loop", "sending"}
                            \/ h.authResult # "none"
    /\ (pc = "done" /\ h.listed = "ok" /\ Len(files) > 0) => h.tokenReads = 1

C12_Witness ==
    /\ run = 2
    /\ pc = "done"
    /\ h.tokenReads = 1
    /\ h.tokenWrites = 1
    /\ h.exchangeCalls = 1
    /\ h.authResult = "ok"

\* C13: of the requests to the callback route that carry a code, the code of
\* the first one is sent on the oneshot channel, once; every later request
\* sends nothing and leaves the value the waiter gets as it was.
C13_FirstCodeOnly ==
    /\ h.sends <= 1
    /\ h.firstCode # None =>
          /\ h.sends = 1
          /\ tx = "taken"
          /\ pc = "await_code" => rx = h.firstCode
          /\ pc = "exchanging" => (auth_code = h.firstCode /\ rx = None)
    /\ h.firstCode = None => (h.sends = 0 /\ rx = None /\ auth_code = None)

C13_Witness ==
    /\ pc = "await_code"
    /\ h.firstCode # None
    /\ h.callbacks = 2
    /\ h.lateOther

\* C14: the Credential file holds what authenticate found in it, or a
\* complete Credential taken from a successful (2xx, parsed) answer of the
\* token endpoint, and it is written only after such an answer.
C14_NoGarbledCredential ==
    /\ (h.authCalls = 1 /\ h.tokenWrites = 0) => authFile = h.credAtAuth
    /\ h.tokenWrites > 0 =>
          /\ h.tokenReply = "good"
          /\ \/ authFile = h.credAtAuth
             \/ authFile.kind = "cred" /\ authFile.cred.access_token = run

\* C15: a token-endpoint operation fails when the transport fails, the status
\* is not 2xx or the body does not parse; after a non-2xx answer no
\* Credential is persisted or returned.
C15_TokenEndpointErrors ==
    /\ h.tokenReply \in {"transport", "status", "decode"} => h.tokenResult = "err"
    /\ h.tokenReply = "status" =>
          /\ h.tokenWrites = 0
          /\ h.persisted = None
          /\ h.authResult # "ok"
          /\ access_token = None

\* C16: in a run with a non-empty batch authenticate is called once, before
\* the first send, it makes at most one token-endpoint call, and every
\* gateway request of the run carries the access token that call returned,
\* whatever has become of the files sent before.
C16_OneTokenForBatch ==
    /\ h.authCalls <= 1
    /\ h.refreshCalls + h.exchangeCalls <= 1
    /\ h.listenerStarts <= 1
    /\ (h.listed = "ok" /\ Len(files) > 0 /\ pc # "auth") => h.authCalls = 1
    /\ \A f \in Files : h.sendAttempts[f] > 0 => (h.authCalls = 1 /\ h.authResult = "ok")
    /\ h.gatewayReqs > 0 =>
          /\ access_token # None
          /\ h.bearers = {access_token}
          /\ access_token = (IF h.authPath = "cached"
                             THEN Some(h.credAtAuth.cred.access_token)
                             ELSE Some(run))

C16_Witness ==
    /\ pc = "done"
    /\ Len(files) = 2
    /\ h.gatewayReqs = 2
    /\ h.authPath = "refresh"
    /\ files[1] \in h.sendFailed
    /\ files[2] \in h.moveOk

\* Gateway requests sent and not yet answered.
InFlight == h.gatewayReqs - Cardinality(h.sendOk \cup h.sendFailed)

\* The file has been dealt with: its send has failed, or it has been sent and
\* its relocation has been tried.
Settled(f) == f \in h.openFailed \cup h.sendFailed \cup h.moveOk \cup h.moveFailed

\* C17: at most one gateway request is in flight, the files are taken in the
\* order of the listing, and when the send of a file starts every file before
\* it has been dealt with, its relocation included when it was sent.
C17_SequentialSends ==
    /\ InFlight \in {0, 1}
    /\ InFlight = 1 <=> pc = "sending"
    /\ Len(h.sendOrder) = (IF pc = "sending" THEN idx ELSE idx - 1)
    /\ h.sendOrder = SubSeq(files, 1, Len(h.sendOrder))
    /\ pc = "sending" => ~Settled(files[idx])
    /\ \A i \in 1..(idx - 1) :
          /\ Settled(files[i])
          /\ files[i] \in h.sendOk => h.moveAttempts[files[i]] = 1

C17_Witness ==
    /\ pc = "sending"
    /\ idx = 2
    /\ files[1] \in h.moveOk
    /\ h.gatewayReqs = 2

\* C18: a file that has been sent and whose relocation has failed is counted
\* as a failure and not as a success, it has had one send and one relocation
\* attempt, the program leaves it in the source directory and puts nothing in
\* the destination directory, and the loop goes on to the end of the batch.
C18_MoveFailureCounted ==
    /\ success_count = Cardinality(h.moveOk)
    /\ failure_count = Cardinality(h.sendFailed \cup h.openFailed \cup h.moveFailed)
    /\ \A k \in h.moveFailed :
          /\ k \in h.sendOk
          /\ k \notin h.moveOk
          /\ h.sendAttempts[k] = 1
          /\ h.moveAttempts[k] = 1
          /\ k \notin h.vanished => srcDir[k] = "file"
          /\ dstDir[k] # "moved"
          /\ result # "Ok"
          /\ pc = "done" => \A f \in Range(files) : h.sendAttempts[f] = 1

C18_Witness ==
    /\ pc = "done"
    /\ Len(files) = 2
    /\ files[1] \in h.moveFailed
    /\ files[1] \notin h.vanished
    /\ files[2] \in h.moveOk
    /\ success_count = 1
    /\ failure_count = 1

\* C19: no file has more than one send attempt or more than one relocation
\* attempt, neither token-endpoint operation is called more than once, and a
\* run that has gone through the loop ends with one send attempt for every
\* enumerated file and success count + failure count = N.
C19_NoRetries ==
    /\ \A f \in Files : h.sendAttempts[f] <= 1 /\ h.moveAttempts[f] <= 1
    /\ h.refreshCalls <= 1
    /\ h.exchangeCalls <= 1
    /\ h.gatewayReqs <= Len(files)
    /\ (pc = "done" /\ h.authResult = "ok") =>
          /\ \A f \in Range(files) : h.sendAttempts[f] = 1
          /\ \A f \in Range(files) : f \in h.sendOk => h.moveAttempts[f] = 1
          /\ success_count + failure_count = Len(files)

C19_Witness ==
    /\ pc = "done"
    /\ Len(files) = 2
    /\ h.refreshCalls = 1
    /\ files[1] \in h.sendFailed
    /\ files[2] \in h.moveFailed

\* C20: when the destination directory holds a file of the same name as a
\* file that has been sent, the relocation fails: the file is counted as
\* failed, it stays in the source directory and the file in the destination
\* directory is left as it was.
C20_CollisionIsFailure ==
    \A k \in h.collided :
        /\ k \in h.moveFailed
        /\ k \notin h.moveOk
        /\ dstDir[k] = "old"
        /\ k \notin h.vanished => srcDir[k] = "file"

\* C21: the listener is started at most once in a run, and only by the
\* interactive step: a run whose token comes from the cache or from a refresh
\* attempt, successful or failed, starts no listener and binds no port.
C21_ListenerOnlyInteractive ==
    /\ h.listenerStarts <= 1
    /\ h.listenerStarts = 1 <=> h.authPath = "interactive"
    /\ listener = "on" => h.listenerStarts = 1
    /\ h.authPath \in {"none", "cached", "refresh"} =>
          /\ h.listenerStarts = 0
          /\ listener = "off"
          /\ tx = "none"
          /\ h.callbacks = 0

C21_Witness ==
    /\ run = 2
    /\ pc = "done"
    /\ h.authPath = "refresh"
    /\ h.refreshResult = "err"
    /\ \E p \in h.prev : p.via = "exchange"

\* C22: when the Sender of the handoff is dropped with no code sent, the wait
\* fails and authenticate fails with "Failed to receive auth code"; no code
\* exchange is made, the Credential file is not written and nothing is sent.
C22_WaitFailureIsError ==
    (tx = "dropped" /\ pc # "await_code") =>
        /\ h.sends = 0
        /\ h.authResult = "err"
        /\ h.authError = "Failed to receive auth code"
        /\ access_token = None
        /\ h.exchangeCalls = 0
        /\ h.tokenWrites = 0
        /\ authFile = h.credAtAuth
        /\ h.gatewayReqs = 0
        /\ result = "Err"

C22_Witness ==
    /\ tx = "dropped"
    /\ pc = "done"
    /\ h.authError = "Failed to receive auth code"
    /\ h.credAtAuth.kind = "cred"

\* C23: the Credential stored by a successful refresh is the refresh response
\* and nothing else: access_token, refresh_token and expires_in are those of
\* the response, a refresh_token the response does not carry is absent from the
\* file whatever the old Credential had, and so is expires_at.
C23_RefreshOverwrites ==
    (h.refreshResult = "ok" /\ h.persisted # None) =>
        /\ authFile.kind = "cred"
        /\ \A b \in h.refreshBody :
              /\ authFile.cred.access_token = b.access_token
              /\ authFile.cred.refresh_token = b.refresh_token
              /\ authFile.cred.expires_in = b.expires_in
        /\ h.refreshBody # None
        /\ authFile.cred.expires_at = None
        /\ authFile.cred.id_token = None

C23_Witness ==
    /\ h.refreshResult = "ok"
    /\ h.persisted # None
    /\ h.credAtAuth.cred.refresh_token # None
    /\ authFile.cred.refresh_token = None
    /\ authFile.cred.expires_in # h.credAtAuth.cred.expires_in
    /\ authFile.cred.access_token # h.credAtAuth.cred.access_token

\* The place of a stage of token resolution in the order Cached, Refreshing,
\* Interactive.
StageRank(s) == IF s = "Cached" THEN 1 ELSE IF s = "Refreshing" THEN 2 ELSE 3

\* C24: the stages authenticate goes through in a run come in the order
\* Cached, Refreshing, Interactive, each at most once: the Credential file is
\* not read again after the refresh stage, and no refresh is attempted after
\* the interactive stage.
C24_StagesOnlyForward ==
    /\ \A i, j \in DOMAIN h.stages : i < j => StageRank(h.stages[i]) < StageRank(h.stages[j])
    /\ h.tokenReads = Cardinality({i \in DOMAIN h.stages : h.stages[i] = "Cached"})
    /\ h.refreshCalls = Cardinality({i \in DOMAIN h.stages : h.stages[i] = "Refreshing"})
    /\ h.listenerStarts = Cardinality({i \in DOMAIN h.stages : h.stages[i] = "Interactive"})
    /\ h.exchangeCalls > 0 => h.stages[Len(h.stages)] = "Interactive"
    /\ pc \in {"await_code", "exchanging"} => h.stages[Len(h.stages)] = "Interactive"
    /\ pc = "refreshing" => h.stages[Len(h.stages)] = "Refreshing"

C24_Witness ==
    /\ run = 2
    /\ h.stages = <<"Cached", "Refreshing">>
    /\ \E p \in h.prev : p.via = "exchange"
    /\ pc = "done"

\* C25: a request to the callback route without a code leaves the Sender in
\* place and sends nothing, so the waiter goes on waiting; the code of a later
\* request is sent to the waiter.
C25_CodelessRequestHarmless ==
    (h.emptyFirst /\ pc = "await_code") =>
        /\ h.firstCode = None =>
              /\ tx = "some"
              /\ rx = None
              /\ h.sends = 0
              /\ ~ENABLED AwaitCode
        /\ h.firstCode # None =>
              /\ tx = "taken"
              /\ rx = h.firstCode
              /\ h.sends = 1
              /\ ENABLED AwaitCode

C25_Witness ==
    /\ pc = "await_code"
    /\ h.emptyFirst
    /\ h.callbacks = 2
    /\ h.firstCode # None
    /\ rx = h.firstCode

\* The enumerated files the run has put into the destination directory.
MovedFiles == {f \in Range(files) : dstDir[f] = "moved"}

\* C26: at the end of a run that has gone through the send loop every
\* enumerated file is in one place: the run has put it into the destination
\* directory exactly when it was counted as a success, and then it is no
\* longer in the source directory; otherwise the run has left it in the source
\* directory; the number of files moved is the success count.
C26_EachFileInOnePlace ==
    (pc = "done" /\ h.authResult = "ok") =>
        /\ \A f \in Range(files) :
              /\ f \in MovedFiles <=> f \in h.moveOk
              /\ f \in MovedFiles => srcDir[f] # "file"
              /\ (f \notin MovedFiles /\ f \notin h.vanished) => srcDir[f] = "file"
        /\ Cardinality(MovedFiles) = success_count
        /\ Cardinality(Range(files) \ MovedFiles) = failure_count

C26_Witness ==
    /\ pc = "done"
    /\ h.authResult = "ok"
    /\ Len(files) = 2
    /\ h.vanished = {}
    /\ h.collided = {}
    /\ \E f \in h.moveOk : srcDir[f] = "none" /\ dstDir[f] = "moved"
    /\ \E f \in h.sendFailed \cup h.moveFailed : srcDir[f] = "file" /\ dstDir[f] # "moved"

\* C27: when the token endpoint has given a token and the write of the
\* Credential file fails, authenticate returns "Error writing token to file"
\* and not the token: the run ends with Err and exit code 1 and no file is
\* sent, counted or moved.
C27_WriteFailureLosesToken ==
    (h.tokenResult = "ok" /\ h.writeOutcome \in {"create_fail", "write_fail"}) =>
        /\ h.authResult = "err"
        /\ h.authError = "Error writing token to file"
        /\ access_token = None
        /\ h.persisted = None
        /\ pc = "done"
        /\ result = "Err"
        /\ exitCode = Some(1)
        /\ h.gatewayReqs = 0
        /\ success_count = 0
        /\ failure_count = 0
        /\ \A f \in Files : h.sendAttempts[f] = 0 /\ h.moveAttempts[f] = 0

C27_Witness ==
    /\ h.tokenResult = "ok"
    /\ h.tokenReply = "good"
    /\ h.exchangeCalls = 1
    /\ h.writeOutcome = "create_fail"
    /\ Len(files) = 2
    /\ pc = "done"

====
